---------------------------- MODULE Spec2Model ----------------------------
(***************************************************************************)
(* Background tool execution of AstrBot: the task state machine            *)
(* (task_state.py), the TaskExecutor (task_executor.py), the               *)
(* BackgroundToolManager (manager.py), the LLM tools that wait on and stop *)
(* tasks (llm_tools.py), the EventBus dispatch that raises interrupt flags *)
(* (event_bus.py) and the ToolExecutor that escalates a timed-out tool     *)
(* call to a background task (tool_execution/).                            *)
(*                                                                         *)
(* Scheduling is asyncio's: one event loop, coroutines interleave only at  *)
(* their await points.  Every action below is the code a coroutine runs    *)
(* between two suspensions.                                                *)
(*                                                                         *)
(* Time is kept by countdown timers that the Tick action advances.  A      *)
(* task's completed_at holds the number of ticks elapsed since             *)
(* time.time() was stored in it (the "age" cleanup computes), capped.      *)
(***************************************************************************)
EXTENDS Naturals, Integers, Sequences, FiniteSets, TLC

\* ------------------------------------------------------------------ bounds
MaxTasks == 1
MaxWaits == 2
MaxCalls == 1
MaxMsgs == 1
BgTimeout == 1
WaitTimeout == 1
ToolCallTimeout == 1
TaskMaxAge == 1
CleanupInterval == 1
MaxLines == 2
MaxBuffers == 3
MaxAppends == 4
MaxN == 3
MaxYields == 3
MaxThreads == 3

TaskIds == 1..MaxTasks
WaitIds == 1..MaxWaits
CallIds == 1..MaxCalls
BufferIds == 1..MaxBuffers
Threads == 1..MaxThreads
Sessions == {"A", "B"}
None == "None"
\* a timestamp field that is None
NoTime == -1
\* a notification_message that is None
NoMessage == [status |-> None, result |-> None, error |-> None]

\* ------------------------------------------------------------------- state
VARIABLES
    tasks,            \* every BackgroundTask object created, by task_id
    reg_tasks,        \* TaskRegistry._tasks: the registered task ids
    session_index,    \* TaskRegistry._session_index: session -> set of ids
    buffers,          \* OutputBuffer._buffers: task id -> lines
    running_tasks,    \* TaskExecutor._running_tasks: ids with an asyncio task
    cancel_events,    \* TaskExecutor._cancel_events: id -> event is set
    run,              \* per task: the execute() coroutine and its async_task
    interrupt_flags,  \* BackgroundToolManager._interrupt_flags (keys)
    cleanup_task,     \* BackgroundToolManager._cleanup_task and its sleep
    waits,            \* the calls of wait_tool_result / wait_task_result
    stops,            \* return values of the stop_task calls, per task
    event_queue,      \* the event queue EventBus.dispatch reads
    msgs,             \* number of external messages received so far
    calls,            \* the calls of ToolExecutor.execute
    rwlock,           \* one RWLock and the threads that use it
    cmd_config        \* cmd_config.json and the lookups of the timeout in it

registryVars == <<reg_tasks, session_index>>
executorVars == <<running_tasks, cancel_events, run>>
vars == <<tasks, reg_tasks, session_index, buffers, running_tasks,
          cancel_events, run, interrupt_flags, cleanup_task, waits, stops,
          event_queue, msgs, rwlock, cmd_config, calls>>

\* --------------------------------------------------------------- TaskStatus
PENDING == "pending"
RUNNING == "running"
COMPLETED == "completed"
FAILED == "failed"
CANCELLED == "cancelled"

\* ----------------------------------------------------------- BackgroundTask
BackgroundTask(session, origin, ev, q) ==
    [session_id |-> session,
     status |-> PENDING,
     started_at |-> NoTime,
     completed_at |-> NoTime,
     result |-> None,
     error |-> None,
     notification_message |-> NoMessage,
     notification_sent |-> FALSE,
     event |-> ev,
     event_queue |-> q,
     is_being_waited |-> FALSE,
     completion_event |-> None,
     origin |-> origin]

is_finished(task) == task.status \in {COMPLETED, FAILED, CANCELLED}

_signal_completion(task) ==
    IF task.completion_event # None
    THEN [task EXCEPT !.completion_event = "set"]
    ELSE task

init_completion_event(task) == [task EXCEPT !.completion_event = "unset"]

start(task) == [task EXCEPT !.status = RUNNING, !.started_at = 0]

\* complete that leaves result unset.
complete_without_result(task, result) ==
    _signal_completion([task EXCEPT !.status = COMPLETED, !.completed_at = 0])

complete(task, result) ==
    _signal_completion([task EXCEPT !.status = COMPLETED,
                                    !.result = result,
                                    !.completed_at = 0])

fail(task, error) ==
    _signal_completion([task EXCEPT !.status = FAILED,
                                    !.error = error,
                                    !.completed_at = 0])

cancel(task) ==
    _signal_completion([task EXCEPT !.status = CANCELLED,
                                    !.completed_at = 0])

\* Python's "sub in s" on strings.
contains(s, sub) ==
    \E i \in 1..(Len(s) - Len(sub) + 1) :
        SubSeq(s, i, i + Len(sub) - 1) = sub

\* Python truthiness of an optional string: None and "" are falsy.
Truthy(v) == v # None /\ v # ""


\* -------------------------------------------------------------- TaskNotifier
status_text(task) ==
    CASE task.status = COMPLETED -> "completed successfully"
      [] task.status = FAILED -> "failed"
      [] task.status = CANCELLED -> "was cancelled"
      [] OTHER -> "finished"

\* TaskNotifier.build_message: the lines of the notification.
build_message(task) ==
    [status |-> status_text(task),
     result |-> IF Truthy(task.result) THEN task.result ELSE None,
     error |-> IF Truthy(task.error) THEN task.error ELSE None]

\* -------------------------------------------------------------- OutputBuffer
\* append to a deque that has no maxlen.
append_unbounded(bufs, id, line) ==
    LET old == IF id \in DOMAIN bufs THEN bufs[id] ELSE <<>>
    IN [x \in (DOMAIN bufs) \cup {id} |->
            IF x = id THEN Append(old, line) ELSE bufs[x]]

\* append: a deque(maxlen = max_lines) per task id.
append(bufs, id, line) ==
    LET old == IF id \in DOMAIN bufs THEN bufs[id] ELSE <<>>
        new == IF Len(old) >= MaxLines
               THEN Append(Tail(old), line)
               ELSE Append(old, line)
    IN [x \in (DOMAIN bufs) \cup {id} |-> IF x = id THEN new ELSE bufs[x]]

RECURSIVE append_all(_, _, _)
append_all(bufs, id, lines) ==
    IF lines = <<>> THEN bufs
    ELSE append_all(append(bufs, id, Head(lines)), id, Tail(lines))

get_all(bufs, id) == IF id \in DOMAIN bufs THEN bufs[id] ELSE <<>>

\* Python's seq[i:], i of either sign.
slice_from(seq, i) ==
    LET first == IF i < 0
                 THEN (IF Len(seq) + i > 0 THEN Len(seq) + i ELSE 0)
                 ELSE (IF i < Len(seq) THEN i ELSE Len(seq))
    IN SubSeq(seq, first + 1, Len(seq))

\* get_recent: all_lines[-n:] if len(all_lines) > n else all_lines.
get_recent(bufs, id, n) ==
    LET all_lines == get_all(bufs, id)
    IN IF Len(all_lines) > n THEN slice_from(all_lines, 0 - n) ELSE all_lines

\* clear: empties the deque of a task id that has one.
clear(bufs, id) ==
    [x \in DOMAIN bufs |-> IF x = id THEN <<>> ELSE bufs[x]]

\* cleanup_old_buffers that deletes nothing.
cleanup_old_buffers_keeping(bufs, valid_task_ids) == bufs

cleanup_old_buffers(bufs, valid_task_ids) ==
    [x \in (DOMAIN bufs) \cap valid_task_ids |-> bufs[x]]

\* -------------------------------------------------------------- TaskRegistry
register(index, id, session) ==
    [s \in (DOMAIN index) \cup {session} |->
        IF s = session
        THEN (IF s \in DOMAIN index THEN index[s] ELSE {}) \cup {id}
        ELSE index[s]]

\* remove: pops the task and discards its id from the session's set.
remove(index, id) ==
    [s \in DOMAIN index |->
        IF s = tasks[id].session_id THEN index[s] \ {id} ELSE index[s]]

RECURSIVE remove_all(_, _)
remove_all(index, ids) ==
    IF ids = {} THEN index
    ELSE LET id == CHOOSE x \in ids : TRUE
         IN remove_all(remove(index, id), ids \ {id})

\* cleanup_finished_tasks without the test of the age.
tasks_to_remove_any_age(max_age_seconds) ==
    {id \in reg_tasks : is_finished(tasks[id])}

\* cleanup_finished_tasks that takes a missing completed_at for old.
tasks_to_remove_unfinished(max_age_seconds) ==
    {id \in reg_tasks :
        tasks[id].completed_at = NoTime
            \/ tasks[id].completed_at > max_age_seconds}

\* cleanup_finished_tasks: the ids it collects under the read lock.
tasks_to_remove(max_age_seconds) ==
    {id \in reg_tasks :
        /\ is_finished(tasks[id])
        /\ tasks[id].completed_at # NoTime
        /\ tasks[id].completed_at > max_age_seconds}

get_by_session(session) ==
    IF session \in DOMAIN session_index
    THEN session_index[session] \cap reg_tasks
    ELSE {}

get_running_tasks(session) ==
    {id \in get_by_session(session) : tasks[id].status = RUNNING}

\* get_task_status: None, or the registered task's to_dict() (status part).
get_task_status(id) ==
    IF id \in reg_tasks THEN tasks[id].status ELSE None

\* get_pending_notifications: the session's registered tasks whose
\* notification is built and not marked sent.
get_pending_notifications(session) ==
    {id \in get_by_session(session) :
        /\ tasks[id].notification_message # NoMessage
        /\ ~tasks[id].notification_sent}

\* ---------------------------------------------------------------- asyncio
\* run[t].pc: the execute() coroutine: "created" (scheduled by create_task,
\* not yet run), "waiting" (suspended in wait_for), "done".
\* run[t].h: the async_task that runs _run_handler: "none", "pending" (not yet
\* stepped), "running" (suspended inside the handler), and the done states.
\* run[t].stop_first: stop_task had requested the cancellation of async_task
\* before the deadline of wait_for passed.
\* run[t].terminal_transitions and run[t].callbacks count the calls of
\* complete/fail/cancel and the callback events put on the queue.
Done == {"returned", "raised", "cancelled"}
done(r) == r.h \in Done

NewRun(kind) ==
    [pc |-> "created", h |-> "none", kind |-> kind, cancel_req |-> FALSE,
     timed_out |-> FALSE, value |-> None, exc |-> None, remaining |-> 0,
     stop_first |-> FALSE, ret |-> None, terminal_transitions |-> 0,
     callbacks |-> 0,
     early_stop |-> FALSE]

with(f, k, v) == [x \in (DOMAIN f) \cup {k} |-> IF x = k THEN v ELSE f[x]]
without(f, k) == [x \in (DOMAIN f) \ {k} |-> f[x]]


\* --------------------------------------------------------------------- Init
Init ==
    /\ tasks = <<>>
    /\ reg_tasks = {}
    /\ session_index = <<>>
    /\ buffers = <<>>
    /\ running_tasks = {}
    /\ cancel_events = <<>>
    /\ run = <<>>
    /\ interrupt_flags = {}
    /\ cleanup_task = [state |-> None, remaining |-> 0]
    /\ waits = [w \in WaitIds |->
                  [pc |-> "idle", fn |-> None, task |-> 0, session |-> None,
                   remaining |-> 0, owed |-> FALSE]]
    /\ stops = [t \in TaskIds |-> <<>>]
    /\ event_queue = <<>>
    /\ msgs = 0
    /\ calls = [c \in CallIds |->
                  [pc |-> "idle", tool |-> None, timeout |-> 0,
                   session |-> None, kind |-> None, remaining |-> 0,
                   starts |-> 0, results |-> 0, handoffs |-> 0, task |-> 0,
                   cause |-> None, mismatch |-> FALSE, exc |-> None,
                   error |-> None]]
    /\ rwlock = [_readers |-> 0, _writers_waiting |-> 0,
                 _writer_active |-> FALSE,
                 pc |-> [th \in Threads |-> "idle"]]
    /\ cmd_config = [value |-> -1, loads |-> 0, returned |-> <<>>,
                     since_lookup |-> NoTime]

\* ------------------------------------------------------------ TaskExecutor
\* _trigger_callback: the three early returns, else the callback event is
\* put on the task's event queue and notification_sent is set.
callback_published(task) ==
    /\ task.event
    /\ task.event_queue
    /\ task.notification_message # NoMessage

\* BackgroundToolConfig.error_preview_max_length of DEFAULT_CONFIG.
error_preview_max_length == 500

\* CallbackEventBuilder's error line: error[:max_len], and "..." after it
\* when the error is longer.
build_error_preview(error, max_len) ==
    IF Len(error) > max_len THEN SubSeq(error, 1, max_len) \o "..." ELSE error

\* The error line of the callback text: the first 500 characters.
error_preview(error) ==
    IF Len(error) > 500 THEN SubSeq(error, 1, 500) \o "..." ELSE error

callback_event(t, task) ==
    [kind |-> "callback", session |-> task.session_id, task |-> t,
     status |-> CASE task.status = COMPLETED -> "completed successfully"
                  [] task.status = FAILED -> "failed"
                  [] OTHER -> "was cancelled",
     result |-> IF Truthy(task.result) THEN task.result ELSE None,
     error |-> IF Truthy(task.error) THEN error_preview(task.error)
               ELSE None]

\* execute, from its first line to the suspension in wait_for.
execute_begin(t, task, r) ==
    /\ tasks' = with(tasks, t, start(task))
    /\ cancel_events' = with(cancel_events, t, FALSE)
    /\ running_tasks' = running_tasks \cup {t}
    /\ run' = with(run, t, [r EXCEPT !.pc = "waiting", !.h = "pending",
                                      !.remaining = BgTimeout])

\* The branch of execute that async_task's own end selects.
outcome(r) ==
    CASE r.h = "returned" -> "complete"
      [] r.h = "raised" /\ r.exc = "WaitInterruptedException" -> "interrupted"
      [] r.h = "raised" /\ r.exc # "WaitInterruptedException" -> "error"
      [] r.h = "cancelled" -> "cancelled"

\* The branch of execute that handles the way wait_for ended: "timeout",
\* "complete", "cancelled", "interrupted" or "error".  When async_task ended
\* on its own and the deadline passed before execute resumed, wait_for
\* hands over async_task's outcome (Python <= 3.11) or raises TimeoutError
\* (Python >= 3.12); in the TimeoutError clause "await async_task" raises
\* the handler's exception again, which the except Exception clause takes.
exec_branch(r) ==
    IF ~r.timed_out \/ r.h = "raised" THEN {outcome(r)}
    ELSE IF r.h = "cancelled" /\ ~r.stop_first THEN {"timeout"}
    ELSE {outcome(r), "timeout"}

error_msg ==
    "Task timed out after " \o ToString(BgTimeout) \o "s and was terminated."

\* Python's s * n on strings.
RECURSIVE repeat(_, _)
repeat(s, n) ==
    IF n <= 0 THEN ""
    ELSE LET half == repeat(s, n \div 2)
         IN half \o half \o (IF n % 2 = 1 THEN s ELSE "")

\* The message of an exception that is longer than any error preview.
long_message == repeat("x", 2 * 500)

\* str(e) of the exceptions a handler raises.
str(exc) ==
    CASE exc = "WaitInterruptedException" -> "Wait interrupted for task 1"
      [] exc = "LongException" -> long_message
      [] OTHER -> "boom"

\* traceback.format_exc() inside the except clause.
format_exc(exc) ==
    "Traceback (most recent call last):\n  File \"task_executor.py\", line 79, in execute\n"
        \o exc \o ": " \o str(exc) \o "\n"

\* error_msg of the except Exception clause.
exception_error_msg(exc) == str(exc) \o "\n" \o format_exc(exc)

\* The value execute returns in the branch.
exec_return(r, branch) == IF branch = "complete" THEN r.value ELSE None

\* The task after the status transition of the branch.
exec_transition(task, r, branch) ==
    CASE branch = "timeout" -> fail(task, error_msg)
      [] branch = "complete" ->
            complete(task, IF Truthy(r.value) THEN r.value ELSE "")
      [] branch = "cancelled" -> cancel(task)
      [] branch = "interrupted" -> fail(task, exception_error_msg(r.exc))
      [] branch = "error" -> fail(task, exception_error_msg(r.exc))

\* execute that builds the notification message in every branch.
exec_notification_always(task, branch) ==
    [task EXCEPT !.notification_message = build_message(task)]

\* execute without the assignments of notification_message.
exec_notification_missing(task, branch) == task

\* The task after the notification message of the branch was built.
exec_notification(task, branch) ==
    IF branch = "interrupted" THEN task
    ELSE [task EXCEPT !.notification_message = build_message(task)]

exec_log(branch) ==
    CASE branch = "timeout" -> "[TIMEOUT]"
      [] branch = "complete" -> "[NOTIFICATION]"
      [] branch = "cancelled" -> "[CANCELLED]"
      [] branch = "interrupted" -> "[INTERRUPTED]"
      [] branch = "error" -> "[ERROR]"

\* execute without its finally clause.
_cleanup_missing(t) == UNCHANGED <<running_tasks, cancel_events>>

\* _cleanup, called from the finally clause of execute.
_cleanup(t) ==
    /\ running_tasks' = running_tasks \ {t}
    /\ cancel_events' = without(cancel_events, t)


\* ---------------------------------------------------- BackgroundToolManager
\* start_cleanup_task: creates the cleanup loop unless one is still alive.
start_cleanup_task ==
    IF cleanup_task.state \in {None, "done"}
    THEN [state |-> "sleeping", remaining |-> CleanupInterval]
    ELSE cleanup_task

next_id == Cardinality(DOMAIN tasks) + 1

\* submit_task: the new task is registered; with wait = True execute runs
\* inline up to its first suspension, else it is scheduled by create_task.
submit(t, session, wait, ev, q, kind, origin) ==
    LET task == init_completion_event(BackgroundTask(session, origin, ev, q))
    IN /\ cleanup_task' = start_cleanup_task
       /\ reg_tasks' = reg_tasks \cup {t}
       /\ session_index' = register(session_index, t, session)
       /\ IF wait
          THEN execute_begin(t, task, NewRun(kind))
          ELSE /\ tasks' = with(tasks, t, task)
               /\ run' = with(run, t, NewRun(kind))
               /\ UNCHANGED <<running_tasks, cancel_events>>

submit_task(session, wait, ev, q, kind) ==
    /\ next_id \in TaskIds
    /\ submit(next_id, session, wait, ev, q, kind, 0)
    /\ UNCHANGED <<buffers, interrupt_flags, waits, stops, event_queue, msgs, rwlock, cmd_config,
                   calls>>

\* The event loop runs an execute() coroutine that create_task scheduled.
ExecStart(t) ==
    /\ t \in DOMAIN run
    /\ run[t].pc = "created"
    /\ execute_begin(t, tasks[t], run[t])
    /\ UNCHANGED <<reg_tasks, session_index, buffers, interrupt_flags,
                   cleanup_task, waits, stops, event_queue, msgs, rwlock, cmd_config, calls>>

\* _run_handler starts: it logs, calls the handler and awaits it.
HandlerStart(t) ==
    /\ t \in DOMAIN run
    /\ run[t].h = "pending"
    /\ ~run[t].cancel_req
    /\ run' = [run EXCEPT ![t].h = "running"]
    /\ buffers' = append_all(buffers, t, <<"[START]", "[ARGS]">>)
    /\ calls' = IF tasks[t].origin # 0
                THEN [calls EXCEPT ![tasks[t].origin].starts = @ + 1]
                ELSE calls
    /\ UNCHANGED <<tasks, reg_tasks, session_index, running_tasks,
                   cancel_events, interrupt_flags, cleanup_task, waits, stops,
                   event_queue, msgs, rwlock, cmd_config>>

Chunks == {None, "X", "Y"}

\* final_result that keeps the first chunk it was given.
final_result_first(r, output) == IF r.value = None THEN output ELSE r.value

\* final_result = output, in the body of the async for.
final_result(r, output) == output

\* An async-generator handler yields a chunk: a non-None chunk is logged
\* and becomes the provisional final result.
HandlerYield(t, output) ==
    /\ t \in DOMAIN run
    /\ run[t].h = "running"
    /\ run[t].kind = "generator"
    /\ ~run[t].cancel_req
    /\ IF output # None
       THEN /\ buffers' = append(buffers, t, output)
            /\ run' = [run EXCEPT ![t].value = final_result(run[t], output)]
       ELSE UNCHANGED <<buffers, run>>
    /\ UNCHANGED <<tasks, reg_tasks, session_index, running_tasks,
                   cancel_events, interrupt_flags, cleanup_task, waits, stops,
                   event_queue, msgs, rwlock, cmd_config, calls>>

\* The handler ends normally: a coroutine returns value, a generator is
\* exhausted and _run_handler returns final_result.
HandlerReturn(t, value) ==
    /\ t \in DOMAIN run
    /\ run[t].h = "running"
    /\ ~run[t].cancel_req
    /\ run' = [run EXCEPT ![t].h = "returned",
                          ![t].value = IF run[t].kind = "generator"
                                       THEN run[t].value ELSE value]
    /\ UNCHANGED <<tasks, reg_tasks, session_index, buffers, running_tasks,
                   cancel_events, interrupt_flags, cleanup_task, waits, stops,
                   event_queue, msgs, rwlock, cmd_config, calls>>

Exceptions == {"Exception", "WaitInterruptedException"}

HandlerRaise(t, exc) ==
    /\ t \in DOMAIN run
    /\ run[t].h = "running"
    /\ ~run[t].cancel_req
    /\ run' = [run EXCEPT ![t].h = "raised", ![t].exc = exc]
    /\ UNCHANGED <<tasks, reg_tasks, session_index, buffers, running_tasks,
                   cancel_events, interrupt_flags, cleanup_task, waits, stops,
                   event_queue, msgs, rwlock, cmd_config, calls>>

\* CancelledError is thrown into the async_task at its await (or before its
\* first step); handlers do not swallow it.
HandlerCancelled(t) ==
    /\ t \in DOMAIN run
    /\ run[t].h \in {"pending", "running"}
    /\ run[t].cancel_req
    /\ run' = [run EXCEPT ![t].h = "cancelled"]
    /\ UNCHANGED <<tasks, reg_tasks, session_index, buffers, running_tasks,
                   cancel_events, interrupt_flags, cleanup_task, waits, stops,
                   event_queue, msgs, rwlock, cmd_config, calls>>

\* A deadline that passes without cancelling the awaited async_task.
TimeoutFireNoCancel(t) ==
    /\ t \in DOMAIN run
    /\ run[t].pc = "waiting"
    /\ run[t].remaining = 0
    /\ ~run[t].timed_out
    /\ run' = [run EXCEPT ![t].timed_out = TRUE]
    /\ UNCHANGED <<tasks, reg_tasks, session_index, buffers, running_tasks,
                   cancel_events, interrupt_flags, cleanup_task, waits, stops,
                   event_queue, msgs, rwlock, cmd_config, calls>>

\* The deadline of wait_for passes: the awaited async_task is cancelled.
TimeoutFire(t) ==
    /\ t \in DOMAIN run
    /\ run[t].pc = "waiting"
    /\ run[t].remaining = 0
    /\ ~run[t].timed_out
    /\ run' = [run EXCEPT ![t].timed_out = TRUE,
                          ![t].stop_first = run[t].cancel_req,
                          ![t].cancel_req = @ \/ ~done(run[t])]
    /\ UNCHANGED <<tasks, reg_tasks, session_index, buffers, running_tasks,
                   cancel_events, interrupt_flags, cleanup_task, waits, stops,
                   event_queue, msgs, rwlock, cmd_config, calls>>

\* execute resumes once its async_task is done: status transition,
\* notification message, log line, callback, then the finally clause.
ExecFinish(t) ==
    /\ t \in DOMAIN run
    /\ run[t].pc = "waiting"
    /\ done(run[t])
    /\ \E branch \in exec_branch(run[t]) :
          LET ended == exec_transition(tasks[t], run[t], branch)
              noted == exec_notification(ended, branch)
              publish == branch # "interrupted" /\ callback_published(noted)
          IN /\ tasks' = [tasks EXCEPT ![t] =
                            IF publish
                            THEN [noted EXCEPT !.notification_sent = TRUE]
                            ELSE noted]
             /\ event_queue' = IF publish
                               THEN Append(event_queue, callback_event(t, noted))
                               ELSE event_queue
             /\ buffers' = append(buffers, t, exec_log(branch))
             /\ run' = [run EXCEPT ![t].pc = "done",
                                   ![t].ret = exec_return(run[t], branch),
                                   ![t].terminal_transitions = @ + 1,
                                   ![t].callbacks =
                                       IF publish THEN @ + 1 ELSE @]
    /\ _cleanup(t)
    /\ UNCHANGED <<reg_tasks, session_index, interrupt_flags, cleanup_task,
                   waits, stops, msgs, rwlock, cmd_config, calls>>

\* TaskExecutor.cancel through BackgroundToolManager.stop_task; its return
\* value is recorded in stops, and run[t].early_stop records a call made
\* before the scheduled execute() coroutine has run.
MaxStops == 2

cancel_succeeds(t) ==
    /\ t \in running_tasks
    /\ ~done(run[t])

\* stop_task that marks the task cancelled itself, whatever its state.
stop_task_marking(t) ==
    /\ t \in DOMAIN tasks
    /\ Len(stops[t]) < MaxStops
    /\ stops' = [stops EXCEPT ![t] = Append(@, TRUE)]
    /\ tasks' = [tasks EXCEPT ![t] = cancel(@)]
    /\ UNCHANGED <<reg_tasks, session_index, buffers, running_tasks,
                   cancel_events, run, interrupt_flags, cleanup_task, waits,
                   event_queue, msgs, rwlock, cmd_config, calls>>

stop_task(t) ==
    /\ t \in DOMAIN tasks
    /\ Len(stops[t]) < MaxStops
    /\ stops' = [stops EXCEPT ![t] = Append(@, cancel_succeeds(t))]
    /\ IF cancel_succeeds(t)
       THEN /\ run' = [run EXCEPT ![t].cancel_req = TRUE]
            /\ cancel_events' = [cancel_events EXCEPT ![t] = TRUE]
       ELSE /\ run' = [run EXCEPT ![t].early_stop = @ \/ run[t].pc = "created"]
            /\ UNCHANGED cancel_events
    /\ UNCHANGED <<tasks, reg_tasks, session_index, buffers, running_tasks,
                   interrupt_flags, cleanup_task, waits, event_queue, msgs, rwlock, cmd_config,
                   calls>>

\* mark_notification_sent on a registered task (on an unknown id it returns
\* False and changes nothing).
mark_notification_sent(t) ==
    /\ t \in reg_tasks
    /\ ~tasks[t].notification_sent
    /\ tasks' = [tasks EXCEPT ![t].notification_sent = TRUE]
    /\ UNCHANGED <<reg_tasks, session_index, buffers, running_tasks,
                   cancel_events, run, interrupt_flags, cleanup_task, waits,
                   stops, event_queue, msgs, rwlock, cmd_config, calls>>

\* ------------------------------------------------------- interrupt flags
set_interrupt_flag(session) == interrupt_flags \cup {session}
check_interrupt_flag(session) == session \in interrupt_flags
\* clear_interrupt_flag that pops nothing.
clear_interrupt_flag_kept(session) == interrupt_flags

clear_interrupt_flag(session) == interrupt_flags \ {session}

\* ---------------------------------------------------------------- llm_tools
active(w) == waits[w].pc = "sleeping"

\* wait_tool_result from its first line to its first sleep: task not
\* found, task already finished, or the stale flag is cleared and the
\* first iteration of the loop falls through to asyncio.sleep(1).
wait_tool_result(w, t, session) ==
    /\ waits[w].pc = "idle"
    /\ LET entry == [waits[w] EXCEPT !.fn = "wait_tool_result", !.task = t,
                                     !.session = session]
       IN IF t \notin reg_tasks
          THEN /\ waits' = [waits EXCEPT ![w] = [entry EXCEPT !.pc = "notfound"]]
               /\ UNCHANGED interrupt_flags
          ELSE IF is_finished(tasks[t])
          THEN /\ waits' = [waits EXCEPT ![w] = [entry EXCEPT !.pc = "returned"]]
               /\ UNCHANGED interrupt_flags
          ELSE /\ waits' = [waits EXCEPT ![w] =
                              [entry EXCEPT !.pc = "sleeping",
                                            !.remaining = WaitTimeout]]
               /\ interrupt_flags' = clear_interrupt_flag(session)
    /\ UNCHANGED <<tasks, reg_tasks, session_index, buffers, running_tasks,
                   cancel_events, run, cleanup_task, stops, event_queue, msgs, rwlock, cmd_config,
                   calls>>

\* A wait that raises WaitInterruptedException and leaves the flag set.
WaitInterruptedKeepingFlag(w) ==
    /\ active(w)
    /\ waits[w].fn = "wait_tool_result"
    /\ check_interrupt_flag(waits[w].session)
    /\ waits' = [waits EXCEPT ![w].pc = "interrupted"]
    /\ UNCHANGED <<tasks, reg_tasks, session_index, buffers, running_tasks,
                   cancel_events, run, interrupt_flags, cleanup_task, stops,
                   event_queue, msgs, rwlock, cmd_config, calls>>

\* The loop wakes from asyncio.sleep(1) and finds the interrupt flag set:
\* the flag is cleared and WaitInterruptedException is raised.
WaitInterrupted(w) ==
    /\ active(w)
    /\ waits[w].fn = "wait_tool_result"
    /\ check_interrupt_flag(waits[w].session)
    /\ interrupt_flags' = clear_interrupt_flag(waits[w].session)
    /\ waits' = [waits EXCEPT ![w].pc = "interrupted"]
    /\ UNCHANGED <<tasks, reg_tasks, session_index, buffers, running_tasks,
                   cancel_events, run, cleanup_task, stops, event_queue, msgs, rwlock, cmd_config,
                   calls>>

\* The loop wakes, no flag is set, and registry.get returns None:
\* task.is_finished() raises AttributeError.
WaitCrashed(w) ==
    /\ active(w)
    /\ waits[w].fn = "wait_tool_result"
    /\ ~check_interrupt_flag(waits[w].session)
    /\ waits[w].task \notin reg_tasks
    /\ waits' = [waits EXCEPT ![w].pc = "crashed"]
    /\ UNCHANGED <<tasks, reg_tasks, session_index, buffers, running_tasks,
                   cancel_events, run, interrupt_flags, cleanup_task, stops,
                   event_queue, msgs, rwlock, cmd_config, calls>>

\* The loop wakes, no flag is set, and the task is finished: the flag is
\* cleared and the formatted result is returned.
WaitReturned(w) ==
    /\ active(w)
    /\ waits[w].fn = "wait_tool_result"
    /\ ~check_interrupt_flag(waits[w].session)
    /\ waits[w].task \in reg_tasks
    /\ is_finished(tasks[waits[w].task])
    /\ interrupt_flags' = clear_interrupt_flag(waits[w].session)
    /\ waits' = [waits EXCEPT ![w].pc = "returned"]
    /\ UNCHANGED <<tasks, reg_tasks, session_index, buffers, running_tasks,
                   cancel_events, run, cleanup_task, stops, event_queue, msgs, rwlock, cmd_config,
                   calls>>

\* A wait that cancels the task's async_task when it gives up.
WaitTimedOutCancelling(w) ==
    /\ active(w)
    /\ waits[w].fn = "wait_tool_result"
    /\ ~check_interrupt_flag(waits[w].session)
    /\ waits[w].task \in reg_tasks
    /\ ~is_finished(tasks[waits[w].task])
    /\ waits[w].remaining = 0
    /\ interrupt_flags' = clear_interrupt_flag(waits[w].session)
    /\ waits' = [waits EXCEPT ![w].pc = "timedout"]
    /\ run' = [run EXCEPT ![waits[w].task].cancel_req = TRUE]
    /\ UNCHANGED <<tasks, reg_tasks, session_index, buffers, running_tasks,
                   cancel_events, cleanup_task, stops, event_queue, msgs, rwlock, cmd_config,
                   calls>>

\* A loop that never tests the elapsed time.
WaitTimedOutNever(w) ==
    /\ FALSE
    /\ UNCHANGED vars

\* The loop wakes, no flag is set, the task is not finished and
\* elapsed >= timeout: the still-running message is returned.
WaitTimedOut(w) ==
    /\ active(w)
    /\ waits[w].fn = "wait_tool_result"
    /\ ~check_interrupt_flag(waits[w].session)
    /\ waits[w].task \in reg_tasks
    /\ ~is_finished(tasks[waits[w].task])
    /\ waits[w].remaining = 0
    /\ interrupt_flags' = clear_interrupt_flag(waits[w].session)
    /\ waits' = [waits EXCEPT ![w].pc = "timedout"]
    /\ UNCHANGED <<tasks, reg_tasks, session_index, buffers, running_tasks,
                   cancel_events, run, cleanup_task, stops, event_queue, msgs, rwlock, cmd_config,
                   calls>>

\* BackgroundToolManager.wait_task_result up to its first sleep; it keeps
\* the task object and gives up when elapsed > timeout.
wait_task_result(w, t) ==
    /\ waits[w].pc = "idle"
    /\ LET entry == [waits[w] EXCEPT !.fn = "wait_task_result", !.task = t]
       IN waits' = [waits EXCEPT ![w] =
             IF t \notin reg_tasks THEN [entry EXCEPT !.pc = "notfound"]
             ELSE IF is_finished(tasks[t]) THEN [entry EXCEPT !.pc = "returned"]
             ELSE [entry EXCEPT !.pc = "sleeping",
                                !.remaining = WaitTimeout + 1]]
    /\ UNCHANGED <<tasks, reg_tasks, session_index, buffers, running_tasks,
                   cancel_events, run, interrupt_flags, cleanup_task, stops,
                   event_queue, msgs, rwlock, cmd_config, calls>>

\* wait_task_result wakes from asyncio.sleep(0.5) and leaves its loop.
WaitTaskResultEnd(w) ==
    /\ active(w)
    /\ waits[w].fn = "wait_task_result"
    /\ \/ /\ is_finished(tasks[waits[w].task])
          /\ waits' = [waits EXCEPT ![w].pc = "returned"]
       \/ /\ ~is_finished(tasks[waits[w].task])
          /\ waits[w].remaining = 0
          /\ waits' = [waits EXCEPT ![w].pc = "timedout"]
    /\ UNCHANGED <<tasks, reg_tasks, session_index, buffers, running_tasks,
                   cancel_events, run, interrupt_flags, cleanup_task, stops,
                   event_queue, msgs, rwlock, cmd_config, calls>>

\* ----------------------------------------------------------------- EventBus
\* A platform adapter puts a new external message on the event queue.
NewMessage(session) ==
    /\ msgs < MaxMsgs
    /\ msgs' = msgs + 1
    /\ event_queue' = Append(event_queue,
            [kind |-> "user", session |-> session, task |-> 0,
             status |-> None, result |-> None, error |-> None])
    /\ UNCHANGED <<tasks, reg_tasks, session_index, buffers, running_tasks,
                   cancel_events, run, interrupt_flags, cleanup_task, waits,
                   stops, calls, rwlock, cmd_config>>

\* EventBus.dispatch takes the next event and sets the interrupt flag of its
\* session.  waits[w].owed records that the flag was set while w was waiting
\* in that session.
dispatch ==
    /\ event_queue # <<>>
    /\ LET event == Head(event_queue)
       IN /\ interrupt_flags' = set_interrupt_flag(event.session)
          /\ waits' = [w \in WaitIds |->
                IF active(w) /\ waits[w].fn = "wait_tool_result"
                             /\ waits[w].session = event.session
                THEN [waits[w] EXCEPT !.owed = TRUE]
                ELSE waits[w]]
    /\ event_queue' = Tail(event_queue)
    /\ UNCHANGED <<tasks, reg_tasks, session_index, buffers, running_tasks,
                   cancel_events, run, cleanup_task, stops, msgs, rwlock, cmd_config, calls>>

\* ------------------------------------------------------------ _cleanup_loop
\* One cycle of the cleanup loop after its sleep: finished tasks older than
\* task_max_age_seconds, orphaned buffers and stale interrupt flags go.
_cleanup_loop ==
    /\ cleanup_task.state = "sleeping"
    /\ cleanup_task.remaining = 0
    /\ LET removed == tasks_to_remove(TaskMaxAge)
           valid_task_ids == reg_tasks \ removed
           active_sessions == {tasks[t].session_id : t \in valid_task_ids}
       IN /\ reg_tasks' = valid_task_ids
          /\ session_index' = remove_all(session_index, removed)
          /\ buffers' = cleanup_old_buffers(buffers, valid_task_ids)
          /\ interrupt_flags' = interrupt_flags \cap active_sessions
    /\ cleanup_task' = [cleanup_task EXCEPT !.remaining = CleanupInterval]
    /\ UNCHANGED <<tasks, running_tasks, cancel_events, run, waits, stops,
                   event_queue, msgs, rwlock, cmd_config, calls>>


\* The manager's start_cleanup_task called on its own.
start_cleanup ==
    /\ cleanup_task' = start_cleanup_task
    /\ cleanup_task' # cleanup_task
    /\ UNCHANGED <<tasks, reg_tasks, session_index, buffers, running_tasks,
                   cancel_events, run, interrupt_flags, waits, stops,
                   event_queue, msgs, rwlock, cmd_config, calls>>

\* stop_cleanup_task: requests the cancellation of a cleanup task that is
\* not done; the task is done only once the loop has run again.
stop_cleanup_task ==
    /\ cleanup_task.state = "sleeping"
    /\ cleanup_task' = [cleanup_task EXCEPT !.state = "cancelling"]
    /\ UNCHANGED <<tasks, reg_tasks, session_index, buffers, running_tasks,
                   cancel_events, run, interrupt_flags, waits, stops,
                   event_queue, msgs, rwlock, cmd_config, calls>>

\* The cancelled cleanup loop gets CancelledError at its sleep and breaks.
_cleanup_loop_cancelled ==
    /\ cleanup_task.state = "cancelling"
    /\ cleanup_task' = [state |-> "done", remaining |-> 0]
    /\ UNCHANGED <<tasks, reg_tasks, session_index, buffers, running_tasks,
                   cancel_events, run, interrupt_flags, waits, stops,
                   event_queue, msgs, rwlock, cmd_config, calls>>

\* ------------------------------------------------------------- ToolExecutor
BACKGROUND_TOOL_NAMES ==
    {"wait_tool_result", "get_tool_output", "stop_tool", "list_running_tools"}

ToolNames == {"my_tool"} \cup BACKGROUND_TOOL_NAMES
Timeouts == {-1, 0, ToolCallTimeout}
MaxResults == 2

_should_enable_timeout(timeout, tool_name) ==
    timeout > 0 /\ tool_name \notin BACKGROUND_TOOL_NAMES

timeout_enabled(c) == _should_enable_timeout(calls[c].timeout, calls[c].tool)

\* The time wait_for gives anext(wrapper): none when the timeout is off.
deadline(timeout, tool_name) ==
    IF _should_enable_timeout(timeout, tool_name) THEN timeout ELSE 0

\* ToolExecutor.execute up to the first suspension of anext(wrapper): the
\* handler is resolved and called by call_local_llm_tool and its body runs
\* to its first await.
ToolExecute(c, tool, timeout, session, kind) ==
    /\ calls[c].pc = "idle"
    /\ calls' = [calls EXCEPT ![c] =
                    [@ EXCEPT !.pc = "awaiting", !.tool = tool,
                              !.timeout = timeout, !.session = session,
                              !.kind = kind, !.starts = 1,
                              !.remaining = deadline(timeout, tool)]]
    /\ UNCHANGED <<tasks, reg_tasks, session_index, buffers, running_tasks,
                   cancel_events, run, interrupt_flags, cleanup_task, waits,
                   stops, event_queue, msgs, rwlock, cmd_config>>

\* The parameters of the resolved handler: the implicit event (or context)
\* first, then the tool's own.
HandlerParams ==
    <<[name |-> "event", annotation |-> None],
      [name |-> "name", annotation |-> "str"]>>

\* The keyword arguments of a tool call: the sets of their names.
ToolArgs == SUBSET {"name", "unexpected", "event"}

\* handler(event, **tool_args) binds: every keyword names a parameter other
\* than the first, and every parameter (none has a default) is given.
binds(params, tool_args) ==
    LET names == {params[i].name : i \in 2..Len(params)}
    IN tool_args = names

\* One parameter as call_local_llm_tool writes it.
param_str(param) ==
    IF param.annotation # None
    THEN param.name \o ": " \o param.annotation
    ELSE param.name

RECURSIVE join(_)
join(strs) ==
    IF Len(strs) = 0 THEN ""
    ELSE IF Len(strs) = 1 THEN strs[1]
    ELSE strs[1] \o ", " \o join(Tail(strs))

\* The parameters without the first, joined.
handler_param_str(params) ==
    LET rest == [i \in 1..(Len(params) - 1) |-> param_str(params[i + 1])]
    IN IF Len(rest) > 0 THEN join(rest)
       ELSE "(no additional parameters)"

mismatch_msg(params) ==
    "Tool handler parameter mismatch, please check the handler definition. Handler parameters: "
        \o handler_param_str(params)

\* ToolExecutor.execute with arguments that do not bind: the first
\* anext(wrapper) runs call_local_llm_tool to the handler's call, whose
\* TypeError is raised again as an Exception; neither except clause of
\* _execute_with_timeout takes it.
ToolMismatch(c, tool, timeout, session, tool_args) ==
    /\ calls[c].pc = "idle"
    /\ ~binds(HandlerParams, tool_args)
    /\ calls' = [calls EXCEPT ![c] =
                    [@ EXCEPT !.pc = "raised", !.tool = tool,
                              !.timeout = timeout, !.session = session,
                              !.mismatch = TRUE, !.exc = "Exception",
                              !.error = mismatch_msg(HandlerParams)]]
    /\ UNCHANGED <<tasks, reg_tasks, session_index, buffers, running_tasks,
                   cancel_events, run, interrupt_flags, cleanup_task, waits,
                   stops, event_queue, msgs, rwlock, cmd_config>>

\* An async-generator handler yields resp before the deadline:
\* ResultProcessor wraps a non-None resp, and the next anext(wrapper) is
\* awaited under a new deadline.
ToolYield(c, resp) ==
    /\ calls[c].pc = "awaiting"
    /\ calls[c].kind = "generator"
    /\ calls[c].results < MaxResults
    /\ calls' = [calls EXCEPT ![c].results = IF resp # None THEN @ + 1 ELSE @,
                              ![c].remaining =
                                  deadline(calls[c].timeout, calls[c].tool)]
    /\ UNCHANGED <<tasks, reg_tasks, session_index, buffers, running_tasks,
                   cancel_events, run, interrupt_flags, cleanup_task, waits,
                   stops, event_queue, msgs, rwlock, cmd_config>>

\* The handler ends before the deadline: a coroutine's value is yielded
\* (None yields nothing), then StopAsyncIteration ends the loop.
ToolReturn(c, value) ==
    /\ calls[c].pc = "awaiting"
    /\ calls' = [calls EXCEPT ![c].pc = "finished",
                              ![c].results =
                                 IF calls[c].kind = "coroutine" /\ value # None
                                 THEN @ + 1 ELSE @]
    /\ UNCHANGED <<tasks, reg_tasks, session_index, buffers, running_tasks,
                   cancel_events, run, interrupt_flags, cleanup_task, waits,
                   stops, event_queue, msgs, rwlock, cmd_config>>

\* handle_timeout that awaits the background run (wait = True).
handle_timeout_waiting(c, cause) ==
    /\ calls[c].pc = "awaiting"
    /\ next_id \in TaskIds
    /\ submit(next_id, calls[c].session, TRUE, TRUE, TRUE, calls[c].kind, c)
    /\ calls' = [calls EXCEPT ![c].pc = "handed_off",
                              ![c].cause = cause,
                              ![c].results = @ + 1,
                              ![c].handoffs = @ + 1,
                              ![c].task = next_id]
    /\ UNCHANGED <<buffers, interrupt_flags, waits, stops, event_queue, msgs, rwlock, cmd_config>>

\* The except asyncio.TimeoutError clause of _execute_with_timeout:
\* BackgroundHandler.handle_timeout submits the handler as a new task with
\* wait = False, the hand-off result is yielded and the generator returns.
\* cause is "deadline" or "raised".
handle_timeout(c, cause) ==
    /\ calls[c].pc = "awaiting"
    /\ next_id \in TaskIds
    /\ submit(next_id, calls[c].session, FALSE, TRUE, TRUE, calls[c].kind, c)
    /\ calls' = [calls EXCEPT ![c].pc = "handed_off",
                              ![c].cause = cause,
                              ![c].results = @ + 1,
                              ![c].handoffs = @ + 1,
                              ![c].task = next_id]
    /\ UNCHANGED <<buffers, interrupt_flags, waits, stops, event_queue, msgs, rwlock, cmd_config>>

\* The deadline of TimeoutStrategy.execute passes: wait_for cancels the
\* awaited anext(wrapper) and raises TimeoutError.
ToolTimeout(c) ==
    /\ timeout_enabled(c)
    /\ calls[c].remaining = 0
    /\ handle_timeout(c, "deadline")

ToolExceptions == {"Exception", "TimeoutError"}

\* The handler raises before the deadline (or with the timeout off): an
\* asyncio.TimeoutError of its own is taken by the same except clause as
\* the deadline's, any other exception reaches the caller.
ToolRaise(c, exc) ==
    IF exc = "TimeoutError"
    THEN handle_timeout(c, "raised")
    ELSE /\ calls[c].pc = "awaiting"
         /\ calls' = [calls EXCEPT ![c].pc = "raised", ![c].exc = exc,
                                   ![c].error = str(exc)]
         /\ UNCHANGED <<tasks, reg_tasks, session_index, buffers,
                        running_tasks, cancel_events, run, interrupt_flags,
                        cleanup_task, waits, stops, event_queue, msgs, rwlock, cmd_config>>

\* --------------------------------------------------------------------- time
AgeCap == TaskMaxAge + 1

down(n) == IF n > 0 THEN n - 1 ELSE 0

Ticked ==
    /\ tasks' = [t \in DOMAIN tasks |->
            IF tasks[t].completed_at # NoTime /\ tasks[t].completed_at < AgeCap
            THEN [tasks[t] EXCEPT !.completed_at = @ + 1]
            ELSE tasks[t]]
    /\ run' = [t \in DOMAIN run |->
            IF run[t].pc = "waiting"
            THEN [run[t] EXCEPT !.remaining = down(@)]
            ELSE run[t]]
    /\ waits' = [w \in WaitIds |->
            IF active(w) THEN [waits[w] EXCEPT !.remaining = down(@)]
            ELSE waits[w]]
    /\ calls' = [c \in CallIds |->
            IF calls[c].pc = "awaiting"
            THEN [calls[c] EXCEPT !.remaining = down(@)]
            ELSE calls[c]]
    /\ cleanup_task' = IF cleanup_task.state = "sleeping"
                       THEN [cleanup_task EXCEPT !.remaining = down(@)]
                       ELSE cleanup_task

\* One unit of time passes.
Tick ==
    /\ Ticked
    /\ <<tasks, run, waits, calls, cleanup_task>>' #
            <<tasks, run, waits, calls, cleanup_task>>
    /\ UNCHANGED <<reg_tasks, session_index, buffers, running_tasks,
                   cancel_events, interrupt_flags, stops, event_queue, msgs, rwlock, cmd_config>>

\* --------------------------------------------------------------------- Next
HandlerKinds == {"coroutine", "generator"}
Values == {None, "", "X"}

\* The steps of a background task once it is submitted.
TaskStep(t) ==
    \/ ExecStart(t)
    \/ HandlerStart(t)
    \/ \E output \in Chunks : HandlerYield(t, output)
    \/ \E value \in Values : HandlerReturn(t, value)
    \/ \E exc \in Exceptions : HandlerRaise(t, exc)
    \/ HandlerCancelled(t)
    \/ TimeoutFire(t)
    \/ ExecFinish(t)

\* The manager's API driven directly: submit, stop, and the cleanup loop.
Next ==
    \/ \E s \in Sessions, wait \in BOOLEAN, ev \in BOOLEAN, q \in BOOLEAN,
          kind \in HandlerKinds : submit_task(s, wait, ev, q, kind)
    \/ \E t \in TaskIds : TaskStep(t)
    \/ \E t \in TaskIds : stop_task(t)
    \/ \E t \in TaskIds : mark_notification_sent(t)
    \/ _cleanup_loop
    \/ Tick

Spec == Init /\ [][Next]_vars


\* The event loop runs every ready coroutine and every due timer, and
\* time passes; handlers need not ever return.
Fairness ==
    /\ WF_vars(Tick)
    /\ \A t \in TaskIds :
          /\ WF_vars(ExecStart(t))
          /\ WF_vars(HandlerStart(t))
          /\ WF_vars(HandlerCancelled(t))
          /\ WF_vars(TimeoutFire(t))
          /\ WF_vars(ExecFinish(t))

LiveSpec == Init /\ [][Next]_vars /\ Fairness

\* The manager with its cleanup task started and stopped from outside.
CleanupNext ==
    \/ \E s \in Sessions, ev \in BOOLEAN, kind \in HandlerKinds :
          submit_task(s, FALSE, ev, ev, kind)
    \/ \E t \in TaskIds : TaskStep(t)
    \/ start_cleanup
    \/ stop_cleanup_task
    \/ _cleanup_loop_cancelled
    \/ _cleanup_loop
    \/ Tick

\* As Fairness, and the cleanup loop is a coroutine of the same event loop.
CleanupFairness ==
    /\ Fairness
    /\ WF_vars(_cleanup_loop)
    /\ WF_vars(_cleanup_loop_cancelled)

CleanupSpec == Init /\ [][CleanupNext]_vars /\ CleanupFairness

\* --------------------------------------------- _get_background_task_timeout
\* cmd_config.value is provider_settings.background_task_wait_timeout as
\* cmd_config.json holds it (-1: the key or the file is absent),
\* cmd_config.loads counts the times the file was opened and parsed,
\* cmd_config.returned lists the values the lookups returned, and
\* cmd_config.since_lookup is the time since the latest lookup.
MaxLookups == 3
\* the key, or the file, is absent
NoValue == -1
ConfigValues == {NoValue, 300, 900}

\* config.get("provider_settings", {}).get(key, 600)
background_task_timeout(value) == IF value = NoValue THEN 600 ELSE value

\* Every variable but cmd_config.
config_others_unchanged ==
    UNCHANGED <<tasks, reg_tasks, session_index, buffers, running_tasks,
                cancel_events, run, interrupt_flags, cleanup_task, waits,
                stops, event_queue, msgs, rwlock, calls>>

\* _get_background_task_timeout: opens cmd_config.json, parses it and
\* returns the configured value or the default.
_get_background_task_timeout ==
    /\ Len(cmd_config.returned) < MaxLookups
    /\ cmd_config' =
          [cmd_config EXCEPT
              !.loads = @ + 1,
              !.returned = Append(@, background_task_timeout(cmd_config.value)),
              !.since_lookup = 0]
    /\ config_others_unchanged

\* The configuration file is rewritten.
ConfigWrite(value) ==
    /\ value # cmd_config.value
    /\ cmd_config' = [cmd_config EXCEPT !.value = value]
    /\ config_others_unchanged

\* One unit of time passes after a lookup.
ConfigTick ==
    /\ cmd_config.since_lookup = 0
    /\ cmd_config' = [cmd_config EXCEPT !.since_lookup = @ + 1]
    /\ config_others_unchanged

\* Lookups of the timeout while the file is edited and time passes.
ConfigNext ==
    \/ _get_background_task_timeout
    \/ \E value \in ConfigValues : ConfigWrite(value)
    \/ ConfigTick

ConfigSpec == Init /\ [][ConfigNext]_vars

\* -------------------------------------------------------------------- RWLock
\* Every access to the lock's fields is made with the mutex of the condition
\* _read_ready held, so the code between taking the mutex and the next wait()
\* or release is one step.  rwlock.pc[th] is where thread th stands:
\*   "idle"; "r_enter" / "w_enter": has called read() / write();
\*   "r_check" / "w_check": notified, about to test its while condition again;
\*   "r_wait" / "w_wait": inside _read_ready.wait();
\*   "reading" / "writing": inside the with block, holding the lock.
others_unchanged ==
    UNCHANGED <<tasks, reg_tasks, session_index, buffers, running_tasks,
                cancel_events, run, interrupt_flags, cleanup_task, waits,
                stops, event_queue, msgs, calls, cmd_config>>

\* notify_all that wakes the waiting readers only.
notify_readers(pc) ==
    [th \in Threads |-> IF pc[th] = "r_wait" THEN "r_check" ELSE pc[th]]

\* notify_all: every thread inside wait() is woken.
notify_all(pc) ==
    [th \in Threads |->
        CASE pc[th] = "r_wait" -> "r_check"
          [] pc[th] = "w_wait" -> "w_check"
          [] OTHER -> pc[th]]

\* The while condition of read(), without the test of _writer_active.
read_blocked_by_waiting_only(l) == l._writers_waiting > 0

\* The while condition of read().
read_blocked(l) == l._writer_active \/ l._writers_waiting > 0

\* The while condition of write().
write_blocked(l) == l._readers > 0 \/ l._writer_active

\* A thread calls read().
ReadRequest(th) ==
    /\ rwlock.pc[th] = "idle"
    /\ rwlock' = [rwlock EXCEPT !.pc[th] = "r_enter"]
    /\ others_unchanged

\* read(): the while loop under the mutex, on entry or after a wake-up.
ReadAcquire(th) ==
    /\ rwlock.pc[th] \in {"r_enter", "r_check"}
    /\ rwlock' = IF read_blocked(rwlock)
                 THEN [rwlock EXCEPT !.pc[th] = "r_wait"]
                 ELSE [rwlock EXCEPT !._readers = @ + 1,
                                     !.pc[th] = "reading"]
    /\ others_unchanged

\* The finally clause of read().
ReadRelease(th) ==
    /\ rwlock.pc[th] = "reading"
    /\ LET left == [rwlock EXCEPT !._readers = @ - 1, !.pc[th] = "idle"]
       IN rwlock' = IF left._readers = 0
                    THEN [left EXCEPT !.pc = notify_all(left.pc)]
                    ELSE left
    /\ others_unchanged

\* A thread calls write().
WriteRequest(th) ==
    /\ rwlock.pc[th] = "idle"
    /\ rwlock' = [rwlock EXCEPT !.pc[th] = "w_enter"]
    /\ others_unchanged

\* write(): _writers_waiting is incremented on entry; then the while loop
\* under the mutex, on entry or after a wake-up.
WriteAcquire(th) ==
    /\ rwlock.pc[th] \in {"w_enter", "w_check"}
    /\ LET l == IF rwlock.pc[th] = "w_enter"
                THEN [rwlock EXCEPT !._writers_waiting = @ + 1]
                ELSE rwlock
       IN rwlock' = IF write_blocked(l)
                    THEN [l EXCEPT !.pc[th] = "w_wait"]
                    ELSE [l EXCEPT !._writers_waiting = @ - 1,
                                   !._writer_active = TRUE,
                                   !.pc[th] = "writing"]
    /\ others_unchanged

\* The finally clause of write().
WriteRelease(th) ==
    /\ rwlock.pc[th] = "writing"
    /\ rwlock' = [rwlock EXCEPT !._writer_active = FALSE,
                                !.pc = notify_all([@ EXCEPT ![th] = "idle"])]
    /\ others_unchanged

\* Threads that read and write through the lock in any order.
RWNext ==
    \/ \E th \in Threads : ReadRequest(th)
    \/ \E th \in Threads : ReadAcquire(th)
    \/ \E th \in Threads : ReadRelease(th)
    \/ \E th \in Threads : WriteRequest(th)
    \/ \E th \in Threads : WriteAcquire(th)
    \/ \E th \in Threads : WriteRelease(th)

\* Every thread that can take a step eventually takes it: a thread that
\* wants the mutex gets it, and a holder leaves its with block.  A thread
\* need not ever call read() or write() again.
RWFairness ==
    \A th \in Threads :
        /\ WF_vars(ReadAcquire(th))
        /\ WF_vars(ReadRelease(th))
        /\ WF_vars(WriteAcquire(th))
        /\ WF_vars(WriteRelease(th))

RWSpec == Init /\ [][RWNext]_vars /\ RWFairness

\* ------------------------------------------------------- streaming handlers
\* The k-th non-null chunk of a streaming handler, and the number of
\* non-null chunks a run has yielded (its final_result is the last one).
chunk(k) == "chunk " \o ToString(k)

yielded(r) ==
    IF r.value = None THEN 0
    ELSE CHOOSE k \in 1..MaxYields : chunk(k) = r.value

\* The handler yields None or its next chunk.
StreamYield(t) ==
    /\ t \in DOMAIN run
    /\ yielded(run[t]) < MaxYields
    /\ \E output \in {None, chunk(yielded(run[t]) + 1)} :
          HandlerYield(t, output)

\* Streaming handlers run by the executor until they end or time out.
StreamNext ==
    \/ \E s \in Sessions, wait \in BOOLEAN, ev \in BOOLEAN :
          submit_task(s, wait, ev, ev, "generator")
    \/ \E t \in TaskIds : ExecStart(t)
    \/ \E t \in TaskIds : HandlerStart(t)
    \/ \E t \in TaskIds : StreamYield(t)
    \/ \E t \in TaskIds : HandlerReturn(t, None)
    \/ \E t \in TaskIds : HandlerCancelled(t)
    \/ \E t \in TaskIds : TimeoutFire(t)
    \/ \E t \in TaskIds : ExecFinish(t)
    \/ Tick

StreamSpec == Init /\ [][StreamNext]_vars

\* ------------------------------------------------ OutputBuffer used directly
\* The lines appended to one buffer are numbered from 1, as "line i" in the
\* tests: appended is the number that the last appended line carries.
appended(bufs, id) ==
    IF get_all(bufs, id) = <<>> THEN 0
    ELSE get_all(bufs, id)[Len(get_all(bufs, id))]

BufferAppend(id) ==
    /\ appended(buffers, id) < MaxAppends
    /\ buffers' = append(buffers, id, appended(buffers, id) + 1)
    /\ UNCHANGED <<tasks, reg_tasks, session_index, running_tasks,
                   cancel_events, run, interrupt_flags, cleanup_task, waits,
                   stops, event_queue, msgs, rwlock, cmd_config, calls>>

BufferClear(id) ==
    /\ buffers' = clear(buffers, id)
    /\ buffers' # buffers
    /\ UNCHANGED <<tasks, reg_tasks, session_index, running_tasks,
                   cancel_events, run, interrupt_flags, cleanup_task, waits,
                   stops, event_queue, msgs, rwlock, cmd_config, calls>>

\* OutputBuffer.remove: pops the buffer of the id.
BufferRemove(id) ==
    /\ id \in DOMAIN buffers
    /\ buffers' = without(buffers, id)
    /\ UNCHANGED <<tasks, reg_tasks, session_index, running_tasks,
                   cancel_events, run, interrupt_flags, cleanup_task, waits,
                   stops, event_queue, msgs, rwlock, cmd_config, calls>>

BufferNext ==
    \/ \E id \in BufferIds : BufferAppend(id)
    \/ \E id \in BufferIds : BufferClear(id)
    \/ \E id \in BufferIds : BufferRemove(id)

BufferSpec == Init /\ [][BufferNext]_vars

\* ------------------------------------------------- registry driven directly
\* A task is created and registered without being executed.
RegistryRegister(session) ==
    /\ next_id \in TaskIds
    /\ tasks' = with(tasks, next_id, BackgroundTask(session, 0, FALSE, FALSE))
    /\ reg_tasks' = reg_tasks \cup {next_id}
    /\ session_index' = register(session_index, next_id, session)
    /\ UNCHANGED <<buffers, running_tasks, cancel_events, run,
                   interrupt_flags, cleanup_task, waits, stops, event_queue,
                   msgs, rwlock, cmd_config, calls>>

\* The methods of a task object called directly, in whatever state it is.
TaskMethod(t, method, arg) ==
    /\ t \in DOMAIN tasks
    /\ tasks' = [tasks EXCEPT ![t] =
            CASE method = "start" -> start(@)
              [] method = "complete" -> complete(@, arg)
              [] method = "fail" -> fail(@, arg)
              [] method = "cancel" -> cancel(@)]
    /\ UNCHANGED <<reg_tasks, session_index, buffers, running_tasks,
                   cancel_events, run, interrupt_flags, cleanup_task, waits,
                   stops, event_queue, msgs, rwlock, cmd_config, calls>>

UpdateKeys == {"status", "completed_at", "result", "error"}
UpdateValues(key) ==
    CASE key = "status" -> {PENDING, RUNNING, COMPLETED, FAILED, CANCELLED}
      [] key = "completed_at" -> {NoTime, 0}
      [] key = "result" -> {None, "X"}
      [] key = "error" -> {None, "boom"}

\* TaskRegistry.update(task_id, key = value): setattr on a registered task.
update(t, key, value) ==
    /\ t \in reg_tasks
    /\ tasks' = [tasks EXCEPT ![t] =
            CASE key = "status" -> [@ EXCEPT !.status = value]
              [] key = "completed_at" -> [@ EXCEPT !.completed_at = value]
              [] key = "result" -> [@ EXCEPT !.result = value]
              [] key = "error" -> [@ EXCEPT !.error = value]]
    /\ UNCHANGED <<reg_tasks, session_index, buffers, running_tasks,
                   cancel_events, run, interrupt_flags, cleanup_task, waits,
                   stops, event_queue, msgs, rwlock, cmd_config, calls>>

MaxAges == {-1, 0, TaskMaxAge}

\* TaskRegistry.cleanup_finished_tasks(max_age_seconds).
cleanup_finished_tasks(max_age_seconds) ==
    LET removed == tasks_to_remove(max_age_seconds)
    IN /\ reg_tasks' = reg_tasks \ removed
       /\ session_index' = remove_all(session_index, removed)
       /\ UNCHANGED <<tasks, buffers, running_tasks, cancel_events, run,
                      interrupt_flags, cleanup_task, waits, stops,
                      event_queue, msgs, rwlock, cmd_config, calls>>

Methods == {"start", "complete", "fail", "cancel"}
MethodArgs(method) ==
    CASE method = "complete" -> {"", "X"}
      [] method = "fail" -> {"boom"}
      [] OTHER -> {None}

\* The registry and the task objects used without the executor.
RegistryNext ==
    \/ \E s \in Sessions : RegistryRegister(s)
    \/ \E t \in TaskIds, method \in Methods :
          \E arg \in MethodArgs(method) : TaskMethod(t, method, arg)
    \/ \E t \in TaskIds, key \in UpdateKeys :
          \E value \in UpdateValues(key) : update(t, key, value)
    \/ \E m \in MaxAges : cleanup_finished_tasks(m)
    \/ Tick

RegistrySpec == Init /\ [][RegistryNext]_vars

\* Handlers that return or raise, with short and long messages, run by the
\* executor and stopped from outside.
NotifyNext ==
    \/ \E s \in Sessions, wait \in BOOLEAN, ev \in BOOLEAN :
          submit_task(s, wait, ev, ev, "coroutine")
    \/ \E t \in TaskIds : ExecStart(t)
    \/ \E t \in TaskIds : HandlerStart(t)
    \/ \E t \in TaskIds, value \in Values : HandlerReturn(t, value)
    \/ \E t \in TaskIds, exc \in {"Exception", "LongException"} :
          HandlerRaise(t, exc)
    \/ \E t \in TaskIds : HandlerCancelled(t)
    \/ \E t \in TaskIds : TimeoutFire(t)
    \/ \E t \in TaskIds : ExecFinish(t)
    \/ \E t \in TaskIds : stop_task(t)
    \/ Tick

NotifySpec == Init /\ [][NotifyNext]_vars

\* register called with a task whose id is already registered: the new
\* object replaces the old one under the id, and the id is added to the set
\* of the new object's session.
RegistryReregister(t, session) ==
    /\ t \in reg_tasks
    /\ tasks' = [tasks EXCEPT ![t] = BackgroundTask(session, 0, FALSE, FALSE)]
    /\ session_index' = register(session_index, t, session)
    /\ UNCHANGED <<reg_tasks, buffers, running_tasks, cancel_events, run,
                   interrupt_flags, cleanup_task, waits, stops, event_queue,
                   msgs, rwlock, cmd_config, calls>>

\* TaskRegistry.remove of a registered id (of an unknown id it returns
\* False and changes nothing).
RegistryRemove(t) ==
    /\ t \in reg_tasks
    /\ reg_tasks' = reg_tasks \ {t}
    /\ session_index' = remove(session_index, t)
    /\ UNCHANGED <<tasks, buffers, running_tasks, cancel_events, run,
                   interrupt_flags, cleanup_task, waits, stops, event_queue,
                   msgs, rwlock, cmd_config, calls>>

\* TaskRegistry.clear.
RegistryClear ==
    /\ reg_tasks' = {}
    /\ session_index' = <<>>
    /\ <<reg_tasks, session_index>>' # <<reg_tasks, session_index>>
    /\ UNCHANGED <<tasks, buffers, running_tasks, cancel_events, run,
                   interrupt_flags, cleanup_task, waits, stops, event_queue,
                   msgs, rwlock, cmd_config, calls>>

\* The registry's own operations in any order, on ids new and old.
IndexNext ==
    \/ \E s \in Sessions : RegistryRegister(s)
    \/ \E t \in TaskIds, s \in Sessions : RegistryReregister(t, s)
    \/ \E t \in TaskIds : RegistryRemove(t)
    \/ \E t \in TaskIds, method \in Methods :
          \E arg \in MethodArgs(method) : TaskMethod(t, method, arg)
    \/ \E m \in MaxAges : cleanup_finished_tasks(m)
    \/ RegistryClear
    \/ Tick

IndexSpec == Init /\ [][IndexNext]_vars

\* The wait calls are numbered in the order they are made.
next_wait(w) == \A v \in WaitIds : v < w => waits[v].pc # "idle"

\* Callers that wait on a task while messages arrive and are dispatched;
\* the task is a coroutine handler that returns or raises on its own.
WaitNext ==
    \/ \E s \in Sessions, ev \in BOOLEAN :
          submit_task(s, FALSE, ev, ev, "coroutine")
    \/ \E t \in TaskIds : ExecStart(t)
    \/ \E t \in TaskIds : HandlerStart(t)
    \/ \E t \in TaskIds, value \in {None, "X"} : HandlerReturn(t, value)
    \/ \E t \in TaskIds : HandlerRaise(t, "Exception")
    \/ \E t \in TaskIds : ExecFinish(t)
    \/ \E w \in WaitIds, t \in TaskIds, s \in Sessions :
          next_wait(w) /\ wait_tool_result(w, t, s)
    \/ \E w \in WaitIds : WaitInterrupted(w)
    \/ \E w \in WaitIds : WaitCrashed(w)
    \/ \E w \in WaitIds : WaitReturned(w)
    \/ \E w \in WaitIds : WaitTimedOut(w)
    \/ \E w \in WaitIds, t \in TaskIds : next_wait(w) /\ wait_task_result(w, t)
    \/ \E w \in WaitIds : WaitTaskResultEnd(w)
    \/ \E s \in Sessions : NewMessage(s)
    \/ dispatch
    \/ _cleanup_loop
    \/ Tick

WaitSpec == Init /\ [][WaitNext]_vars

\* One iteration of the loop of wait_tool_result after asyncio.sleep(1)
\* that leaves the loop.
WaitWake(w) ==
    \/ WaitInterrupted(w)
    \/ WaitCrashed(w)
    \/ WaitReturned(w)
    \/ WaitTimedOut(w)

\* Callers of wait_tool_result, a task whose handler may never return,
\* messages and the cleanup loop.
WaitLiveNext ==
    \/ \E s \in Sessions, ev \in BOOLEAN :
          submit_task(s, FALSE, ev, ev, "coroutine")
    \/ \E t \in TaskIds : ExecStart(t)
    \/ \E t \in TaskIds : HandlerStart(t)
    \/ \E t \in TaskIds : HandlerReturn(t, "X")
    \/ \E t \in TaskIds : ExecFinish(t)
    \/ \E w \in WaitIds, t \in TaskIds, s \in Sessions :
          next_wait(w) /\ wait_tool_result(w, t, s)
    \/ \E w \in WaitIds : WaitWake(w)
    \/ \E s \in Sessions : NewMessage(s)
    \/ dispatch
    \/ _cleanup_loop
    \/ Tick

\* Time passes and asyncio.sleep(1) ends: the loop of a waiting call runs
\* again.  Neither the handler nor the platform need ever take a step.
WaitFairness ==
    /\ WF_vars(Tick)
    /\ \A w \in WaitIds : WF_vars(WaitWake(w))

WaitLiveSpec == Init /\ [][WaitLiveNext]_vars /\ WaitFairness

\* get_tool_output(event, task_id, lines = 50): the task is looked up by its
\* id; the answer holds the task's status and its recent output.
get_tool_output(session, t) ==
    IF t \notin reg_tasks
    THEN [found |-> FALSE, status |-> None, output |-> <<>>]
    ELSE [found |-> TRUE, status |-> tasks[t].status,
          output |-> get_recent(buffers, t, 50)]

\* stop_tool(event, task_id) on a registered, unfinished task: stop_task is
\* called (on an unknown or finished task it only returns a message).
stop_tool(session, t) ==
    /\ t \in reg_tasks
    /\ ~is_finished(tasks[t])
    /\ stop_task(t)

\* Callers of two sessions that use the LLM tools on any task id.
SessionNext ==
    \/ \E s \in Sessions, ev \in BOOLEAN :
          submit_task(s, FALSE, ev, ev, "coroutine")
    \/ \E t \in TaskIds : ExecStart(t)
    \/ \E t \in TaskIds : HandlerStart(t)
    \/ \E t \in TaskIds : HandlerReturn(t, "X")
    \/ \E t \in TaskIds : HandlerCancelled(t)
    \/ \E t \in TaskIds : ExecFinish(t)
    \/ \E w \in WaitIds, t \in TaskIds, s \in Sessions :
          next_wait(w) /\ wait_tool_result(w, t, s)
    \/ \E w \in WaitIds : WaitInterrupted(w)
    \/ \E w \in WaitIds : WaitReturned(w)
    \/ \E w \in WaitIds : WaitTimedOut(w)
    \/ \E s \in Sessions, t \in TaskIds : stop_tool(s, t)
    \/ dispatch
    \/ Tick

SessionSpec == Init /\ [][SessionNext]_vars

\* Tool calls made through ToolExecutor, escalated on timeout.
ToolNext ==
    \/ \E c \in CallIds, tool \in ToolNames, timeout \in Timeouts,
          s \in Sessions, kind \in HandlerKinds :
          ToolExecute(c, tool, timeout, s, kind)
    \/ \E c \in CallIds, tool \in ToolNames, timeout \in Timeouts,
          s \in Sessions, tool_args \in ToolArgs :
          ToolMismatch(c, tool, timeout, s, tool_args)
    \/ \E c \in CallIds, resp \in Chunks : ToolYield(c, resp)
    \/ \E c \in CallIds, value \in Values : ToolReturn(c, value)
    \/ \E c \in CallIds, exc \in ToolExceptions : ToolRaise(c, exc)
    \/ \E c \in CallIds : ToolTimeout(c)
    \/ \E t \in TaskIds : TaskStep(t)
    \/ _cleanup_loop
    \/ Tick

ToolSpec == Init /\ [][ToolNext]_vars


\* ================================================================== claims

\* C1: a task's status only moves pending -> running -> one of completed,
\* failed, cancelled; once it is completed, failed or cancelled no step
\* (stop_task, timeout, handler end, cleanup, time) changes it again.
C1_TerminalIsFinal ==
    [][\A t \in DOMAIN tasks :
          /\ is_finished(tasks[t]) => tasks'[t].status = tasks[t].status
          /\ tasks'[t].status # tasks[t].status =>
                \/ tasks[t].status = PENDING /\ tasks'[t].status = RUNNING
                \/ tasks[t].status = RUNNING /\ is_finished(tasks'[t])]_vars

\* A finished task that stop_task was called on afterwards (it returned
\* False) and that the cleanup loop has removed from the registry.
C1_Witness ==
    \E t \in DOMAIN tasks :
        /\ is_finished(tasks[t])
        /\ t \notin reg_tasks
        /\ Len(stops[t]) = 2
        /\ stops[t][1] /\ ~stops[t][2]


\* C2 as stated: after the hand-off exactly one hand-off result was
\* yielded and from then on get_task_status of the returned id reports the
\* task, with its terminal status once the background run has ended.
C2_StatusForever ==
    \A c \in CallIds :
        calls[c].pc = "handed_off" =>
            /\ calls[c].handoffs = 1
            /\ get_task_status(calls[c].task) # None
            /\ run[calls[c].task].pc = "done" =>
                  get_task_status(calls[c].task) \in {COMPLETED, FAILED, CANCELLED}

\* C2 amended: a timed-out call yields exactly one hand-off result, its id
\* names a task created and registered by this call, only a call with the
\* timeout enabled is handed off, the task is terminal once its run has
\* ended, and get_task_status reports it until the cleanup loop has removed
\* it, which happens only when it is finished and older than the retention
\* window.
C2_StatusUntilCleanup ==
    \A c \in CallIds :
        /\ calls[c].handoffs <= 1
        /\ calls[c].handoffs = 1 <=> calls[c].pc = "handed_off"
        /\ calls[c].pc = "handed_off" =>
              LET t == calls[c].task
              IN /\ calls[c].cause = "deadline" => timeout_enabled(c)
                 /\ t \in DOMAIN tasks
                 /\ tasks[t].origin = c
                 /\ tasks[t].session_id = calls[c].session
                 /\ run[t].pc = "done" => is_finished(tasks[t])
                 /\ get_task_status(t) = None =>
                       /\ is_finished(tasks[t])
                       /\ tasks[t].completed_at > TaskMaxAge
                 /\ get_task_status(t) # None =>
                       get_task_status(t) = tasks[t].status

\* A handed-off call whose background run has ended and is still reported.
C2_Witness ==
    \E c \in CallIds :
        /\ calls[c].pc = "handed_off"
        /\ run[calls[c].task].pc = "done"
        /\ get_task_status(calls[c].task) = COMPLETED

\* C3 as stated: the handler body is started at most once per tool call,
\* also when the call is escalated because its deadline passed.
C3_StartedOnce ==
    \A c \in CallIds : calls[c].cause # "raised" => calls[c].starts <= 1


\* C4 as stated: a wait_tool_result call that was active in session s when
\* set_interrupt_flag(s) was called (waits[w].owed) ends only by raising
\* WaitInterruptedException, never with a result or the timeout message.
C4_EveryWaitInterrupted ==
    \A w \in WaitIds :
        (waits[w].fn = "wait_tool_result" /\ waits[w].owed) =>
            waits[w].pc \in {"sleeping", "interrupted"}

\* C5: no exit of wait_tool_result or wait_task_result (and no entry)
\* changes any task's fields, its registration, or the state of its
\* execution and handler.
C5_WaitLeavesTaskAlone ==
    [][(\E w \in WaitIds : waits'[w].pc # waits[w].pc) =>
          UNCHANGED <<tasks, run, reg_tasks, session_index, running_tasks,
                      cancel_events, buffers, event_queue>>]_vars

\* One wait was interrupted and another timed out while their task is
\* still running with its handler uncancelled.
C5_Witness ==
    \E w \in WaitIds, v \in WaitIds :
        /\ waits[w].pc = "interrupted"
        /\ waits[v].pc = "timedout"
        /\ waits[w].task = waits[v].task
        /\ tasks[waits[w].task].status = RUNNING
        /\ run[waits[w].task].h = "running"
        /\ ~run[waits[w].task].cancel_req

\* C6 as stated: while a caller is inside wait_tool_result for a task, the
\* task is marked is_being_waited and no callback event has been queued
\* for it.
C6_WaitedTaskNotAnnounced ==
    \A w \in WaitIds :
        (active(w) /\ waits[w].fn = "wait_tool_result") =>
            /\ tasks[waits[w].task].is_being_waited
            /\ run[waits[w].task].callbacks = 0


C8_EarlyStopCancels ==
    \A t \in DOMAIN tasks :
        (run[t].early_stop /\ is_finished(tasks[t])) =>
            tasks[t].status = CANCELLED

\* C9 as stated: when stop_task is called twice on a running task (the
\* first call returned True), the second call returns False.
C9_SecondStopReturnsFalse ==
    \A t \in TaskIds :
        (Len(stops[t]) >= 2 /\ stops[t][1]) => ~stops[t][2]

\* C10: every submitted task eventually reaches a terminal status, and a
\* task whose handler was cancelled by the background-task timeout (and not
\* by an earlier stop_task) ends failed with the timed-out message.
C10_EveryTaskEnds ==
    /\ \A t \in TaskIds :
          (t \in DOMAIN tasks) ~> (t \in DOMAIN tasks /\ is_finished(tasks[t]))
    /\ [](\A t \in DOMAIN tasks :
            (run[t].pc = "done" /\ run[t].timed_out /\ run[t].h = "cancelled"
                /\ ~run[t].stop_first) =>
                /\ tasks[t].status = FAILED
                /\ tasks[t].error = error_msg)

\* A task whose handler was cancelled by the timeout and that ended failed.
C10_Witness ==
    \E t \in DOMAIN tasks :
        /\ run[t].h = "cancelled"
        /\ run[t].timed_out
        /\ ~run[t].early_stop
        /\ stops[t] = <<>>
        /\ tasks[t].status = FAILED
        /\ tasks[t].error = error_msg


C12_NoStackTrace ==
    /\ \A t \in DOMAIN tasks :
          (tasks[t].status = FAILED /\ run[t].h = "raised") =>
              /\ ~contains(tasks[t].error, "Traceback")
              /\ tasks[t].notification_message # NoMessage =>
                    ~contains(tasks[t].notification_message.error, "Traceback")
    /\ \A i \in 1..Len(event_queue) :
          (event_queue[i].kind = "callback" /\ event_queue[i].error # None) =>
              ~contains(event_queue[i].error, "Traceback")

\* C13: a task whose handler ended with WaitInterruptedException has no
\* notification message, no callback event was queued for it, and it is not
\* among the pending notifications of its session.
C13_InterruptedNotNotified ==
    \A t \in DOMAIN tasks :
        (run[t].pc = "done" /\ run[t].h = "raised"
            /\ run[t].exc = "WaitInterruptedException") =>
            /\ tasks[t].notification_message = NoMessage
            /\ run[t].callbacks = 0
            /\ \A i \in 1..Len(event_queue) :
                  ~(event_queue[i].kind = "callback" /\ event_queue[i].task = t)
            /\ t \notin get_pending_notifications(tasks[t].session_id)

\* A registered task with an event and an event queue whose handler ended
\* with WaitInterruptedException.
C13_Witness ==
    \E t \in DOMAIN tasks :
        /\ run[t].pc = "done"
        /\ run[t].exc = "WaitInterruptedException"
        /\ tasks[t].status = FAILED
        /\ tasks[t].event /\ tasks[t].event_queue
        /\ t \in reg_tasks


\* C14 as stated: once execute has ended for a task, the task's event,
\* event_queue and completion_event are None.
C14_ReferencesReleased ==
    \A t \in DOMAIN tasks :
        run[t].pc = "done" =>
            /\ ~tasks[t].event
            /\ ~tasks[t].event_queue
            /\ tasks[t].completion_event = None

\* C15 as stated: for every task, is_finished() iff completed_at is not
\* None iff status is completed, failed or cancelled, after any sequence of
\* operations on the task and on the registry.
C15_FinishedIffCompletedAt ==
    \A t \in DOMAIN tasks :
        /\ is_finished(tasks[t]) <=> tasks[t].completed_at # NoTime
        /\ is_finished(tasks[t]) <=>
              tasks[t].status \in {COMPLETED, FAILED, CANCELLED}

\* C16 as stated: for every finished task exactly one of result and error
\* is non-null.
C16_ExactlyOne ==
    \A t \in DOMAIN tasks :
        is_finished(tasks[t]) =>
            (tasks[t].result # None) # (tasks[t].error # None)

\* C16 amended: result and error are never both non-null; a completed task
\* has a result and no error, a failed task an error and no result, a
\* cancelled task neither, and an unfinished task neither.
C16_ResultOrErrorByStatus ==
    \A t \in DOMAIN tasks :
        /\ ~(tasks[t].result # None /\ tasks[t].error # None)
        /\ tasks[t].status = COMPLETED =>
              tasks[t].result # None /\ tasks[t].error = None
        /\ tasks[t].status = FAILED =>
              tasks[t].error # None /\ tasks[t].result = None
        /\ tasks[t].status \in {CANCELLED, PENDING, RUNNING} =>
              tasks[t].result = None /\ tasks[t].error = None

\* A task cancelled by stop_task whose execute has ended: it is finished
\* with neither a result nor an error.
C16_Witness ==
    \E t \in DOMAIN tasks :
        /\ run[t].pc = "done"
        /\ tasks[t].status = CANCELLED
        /\ tasks[t].result = None
        /\ tasks[t].error = None

\* C17 as stated: a task with notification_sent has a notification
\* message.
C17_SentImpliesMessage ==
    \A t \in DOMAIN tasks :
        tasks[t].notification_sent => tasks[t].notification_message # NoMessage

\* C20: a call of cleanup_finished_tasks(max_age) removes from the registry
\* only tasks that are finished and whose completed_at is older than
\* max_age, and changes no task; pending and running tasks stay.
C20_CleanupOnlyOldFinished ==
    [][\A m \in MaxAges :
          cleanup_finished_tasks(m) =>
              \A t \in reg_tasks :
                  t \notin reg_tasks' =>
                      /\ tasks[t].status \notin {PENDING, RUNNING}
                      /\ is_finished(tasks[t])
                      /\ tasks[t].completed_at # NoTime
                      /\ tasks[t].completed_at > m]_vars

\* A finished task that cleanup_finished_tasks has removed (the only way
\* out of the registry here).
C20_Witness ==
    \E t \in DOMAIN tasks :
        /\ t \notin reg_tasks
        /\ is_finished(tasks[t])
        /\ tasks[t].completed_at # NoTime


\* C18 as stated: for a call whose tool name is reserved or whose declared
\* timeout is not positive, no hand-off happens and no background task is
\* submitted.
C18_ReservedNeverEscalated ==
    \A c \in CallIds :
        ~timeout_enabled(c) =>
            /\ calls[c].handoffs = 0
            /\ calls[c].pc # "handed_off"
            /\ \A t \in DOMAIN tasks : tasks[t].origin # c

\* C19: in the step in which handle_timeout returns the hand-off result,
\* the task of the returned id is new, registered, still pending (not
\* terminal), and its execute coroutine is only scheduled: not run, not
\* awaited, not yet in _running_tasks.
C19_HandOffDetached ==
    [][\A c \in CallIds :
          (calls[c].pc # "handed_off" /\ calls'[c].pc = "handed_off") =>
              LET t == calls'[c].task
              IN /\ t \notin DOMAIN tasks
                 /\ t \in reg_tasks'
                 /\ tasks'[t].status = PENDING
                 /\ ~is_finished(tasks'[t])
                 /\ run'[t].pc = "created"
                 /\ run'[t].h = "none"
                 /\ t \notin running_tasks'
                 /\ calls'[c].results = calls[c].results + 1]_vars

\* The hand-off has been returned and the background run, detached, is
\* under way.
C19_Witness ==
    \E c \in CallIds :
        /\ calls[c].pc = "handed_off"
        /\ calls[c].cause = "deadline"
        /\ calls[c].task \in reg_tasks
        /\ tasks[calls[c].task].status = RUNNING
        /\ run[calls[c].task].h = "running"

\* C21 as stated: after cleanup_finished_tasks(0) no finished task is left
\* in the registry, whatever its completion time, and every pending or
\* running task is still registered.  Stated of the registry that the call
\* leaves, in every reachable state; only finished tasks that have a
\* completion time are asked to be gone.
C21_CleanupZeroRemovesAllFinished ==
    LET remaining == reg_tasks \ tasks_to_remove(0)
    IN /\ \A t \in remaining :
              tasks[t].completed_at # NoTime => ~is_finished(tasks[t])
       /\ \A t \in reg_tasks :
              tasks[t].status \in {PENDING, RUNNING} => t \in remaining

\* C22 as stated: the session index holds only ids of registered tasks,
\* and it never keeps a session key whose set of ids is empty: removing the
\* last task of a session deletes the session's entry.
C22_NoEmptySessionEntry ==
    \A s \in DOMAIN session_index :
        /\ session_index[s] \subseteq reg_tasks
        /\ session_index[s] # {}

\* C23: at the end of every cycle of the cleanup loop, every output buffer
\* left belongs to a registered task and every interrupt flag left belongs
\* to a session that has a registered task.
C23_CleanupLeavesNoOrphans ==
    [][_cleanup_loop =>
          /\ DOMAIN buffers' \subseteq reg_tasks'
          /\ \A s \in interrupt_flags' :
                \E t \in reg_tasks' : tasks'[t].session_id = s]_vars

\* A cycle has just ended that found a finished task past the retention
\* window: the task, its buffer and the interrupt flag that a dispatched
\* message had set (no wait consumed it) are gone.
C23_Witness ==
    /\ cleanup_task.state = "sleeping"
    /\ cleanup_task.remaining = CleanupInterval
    /\ msgs = 1
    /\ event_queue = <<>>
    /\ \A w \in WaitIds : waits[w].pc = "idle"
    /\ interrupt_flags = {}
    /\ \E t \in DOMAIN tasks :
          /\ is_finished(tasks[t])
          /\ t \notin reg_tasks
          /\ t \notin DOMAIN buffers

\* C24 as stated: every task that has reached a terminal status is
\* eventually removed from the registry, and once a task has been
\* submitted a cleanup loop is running, and stays running.
C24_FinishedEventuallyRemoved ==
    /\ \A t \in TaskIds :
          (t \in DOMAIN tasks /\ is_finished(tasks[t])) ~> (t \notin reg_tasks)
    /\ [](tasks # <<>> => cleanup_task.state = "sleeping")

\* The last n elements of seq, in order (all of it if it has fewer).
last_lines(seq, n) ==
    IF n >= Len(seq) THEN seq ELSE SubSeq(seq, Len(seq) - n + 1, Len(seq))

\* The lines 1 .. k in the order they were appended.
lines_appended(k) == [i \in 1..k |-> i]

\* C25: every buffer holds at most max_lines lines, and after k appends it
\* holds exactly the last min(k, max_lines) appended lines in the order of
\* the appends (an append to a full buffer drops the oldest line only).
C25_BufferKeepsLastLines ==
    \A id \in DOMAIN buffers :
        /\ Len(buffers[id]) <= MaxLines
        /\ buffers[id] =
              last_lines(lines_appended(appended(buffers, id)), MaxLines)

\* A buffer that was full and has been appended to: the first line is gone.
C25_Witness ==
    \E id \in DOMAIN buffers :
        /\ Len(buffers[id]) = MaxLines
        /\ appended(buffers, id) > MaxLines
        /\ buffers[id][1] > 1

\* C26 as stated: for every buffer id and every n >= 0, get_recent(id, n)
\* is the last min(n, available) buffered lines in their order.
C26_GetRecentLastN ==
    \A id \in BufferIds, n \in 0..MaxN :
        get_recent(buffers, id, n) = last_lines(get_all(buffers, id), n)

\* Every line logged for a streaming run so far: the two lines of
\* _run_handler, the non-null chunks in yield order, and the line execute
\* logs once it has ended.
stream_log(t) ==
    <<"[START]", "[ARGS]">>
        \o [i \in 1..yielded(run[t]) |-> chunk(i)]
        \o (IF run[t].pc # "done" THEN <<>>
            ELSE IF tasks[t].status = COMPLETED THEN <<"[NOTIFICATION]">>
            ELSE <<"[TIMEOUT]">>)

\* The chunks of a streaming handler that ended normally are in the buffer.
stream_logged(t) ==
    (run[t].h \in {"running", "returned"}) =>
        /\ t \in DOMAIN buffers
        /\ buffers[t] = last_lines(stream_log(t), MaxLines)

\* C27 as stated: a streaming handler's non-null chunks, and only they,
\* are appended to the task's buffer in yield order, and once the handler
\* has ended normally the task ends completed with the last non-null chunk
\* as its result.
C27_StreamResultIsLastChunk ==
    \A t \in DOMAIN run :
        /\ stream_logged(t)
        /\ (run[t].h = "returned" /\ run[t].pc = "done") =>
              /\ tasks[t].status = COMPLETED
              /\ yielded(run[t]) > 0 =>
                    tasks[t].result = chunk(yielded(run[t]))

\* C27 amended: as stated when the background-task timeout has not passed
\* before execute resumes; when it has, the task ends either completed in
\* that way or failed with the timed-out message and no result.  Without a
\* non-null chunk the result is the empty string.
C27_StreamResultUnlessTimedOut ==
    \A t \in DOMAIN run :
        /\ stream_logged(t)
        /\ (run[t].h = "returned" /\ run[t].pc = "done") =>
              LET completed ==
                      /\ tasks[t].status = COMPLETED
                      /\ tasks[t].error = None
                      /\ tasks[t].result =
                            IF yielded(run[t]) > 0
                            THEN chunk(yielded(run[t])) ELSE ""
                  timed_out ==
                      /\ tasks[t].status = FAILED
                      /\ tasks[t].error = error_msg
                      /\ tasks[t].result = None
              IN IF run[t].timed_out THEN completed \/ timed_out
                 ELSE completed

\* A streaming handler yielded several chunks and ended; its task is
\* completed with the last of them.
C27_Witness ==
    \E t \in DOMAIN run :
        /\ run[t].h = "returned"
        /\ run[t].pc = "done"
        /\ ~run[t].timed_out
        /\ yielded(run[t]) = MaxYields
        /\ tasks[t].status = COMPLETED
        /\ tasks[t].result = chunk(MaxYields)

readers == {th \in Threads : rwlock.pc[th] = "reading"}
writers == {th \in Threads : rwlock.pc[th] = "writing"}

\* C28: a writer never holds the lock together with another writer or with
\* a reader (several readers may hold it together); the lock's counters
\* agree with the holders.
C28_WriterExclusive ==
    /\ Cardinality(writers) <= 1
    /\ writers # {} => readers = {}
    /\ rwlock._readers = Cardinality(readers)
    /\ rwlock._writer_active <=> writers # {}

\* Two readers hold the lock together while a third thread, which asked
\* for the write lock, waits.
C28_Witness ==
    /\ Cardinality(readers) >= 2
    /\ \E th \in Threads : rwlock.pc[th] = "w_wait"

\* A thread that has called write() and does not hold the lock yet.
write_requested(th) == rwlock.pc[th] \in {"w_enter", "w_check", "w_wait"}

\* C29 as stated: a thread that has requested the write lock eventually
\* holds it.
C29_WriterEventuallyAcquires ==
    \A th \in Threads : write_requested(th) ~> (rwlock.pc[th] = "writing")

\* C29 amended: readers cannot keep writers out.  No reader enters while a
\* writer is registered as waiting or is active, and once a thread has
\* requested the write lock some writer eventually holds it; which of
\* several requesting writers gets it is not determined.
C29_ReadersNeverStarveWriters ==
    /\ [][\A th \in Threads :
            (rwlock.pc[th] # "reading" /\ rwlock'.pc[th] = "reading") =>
                /\ rwlock._writers_waiting = 0
                /\ ~rwlock._writer_active]_vars
    /\ \A th \in Threads : write_requested(th) ~> (writers # {})

\* A writer holds the lock that had to wait for it, while a reader that
\* asked later is waiting behind it.
C29_Witness ==
    \E th \in Threads, r \in Threads :
        /\ rwlock.pc[th] = "writing"
        /\ rwlock.pc[r] = "r_wait"

\* C30 as stated: a call whose arguments do not bind to the handler's
\* parameters fails with a ParameterValidationError whose message names the
\* handler's parameters without the implicit first one; the error reaches
\* the caller, no result is yielded and no background task is submitted.
C30_MismatchIsParameterValidationError ==
    \A c \in CallIds :
        calls[c].mismatch =>
            /\ calls[c].pc = "raised"
            /\ calls[c].exc = "ParameterValidationError"
            /\ contains(calls[c].error, "name: str")
            /\ ~contains(calls[c].error, "event")
            /\ calls[c].results = 0
            /\ calls[c].handoffs = 0
            /\ \A t \in DOMAIN tasks : tasks[t].origin # c

\* C31 as stated: for a failed task, the error line of the task's
\* notification message and of its queued callback event is the first
\* error_preview_max_length characters of the error, followed by "..."
\* exactly when the error is longer; for a completed task with a result,
\* both carry the result.
C31_ErrorPreviewCapped ==
    /\ \A t \in DOMAIN tasks :
          tasks[t].notification_message # NoMessage =>
              /\ tasks[t].status = FAILED =>
                    tasks[t].notification_message.error =
                        build_error_preview(tasks[t].error,
                                            error_preview_max_length)
              /\ (tasks[t].status = COMPLETED /\ Truthy(tasks[t].result)) =>
                    tasks[t].notification_message.result = tasks[t].result
    /\ \A i \in 1..Len(event_queue) :
          event_queue[i].kind = "callback" =>
              LET task == tasks[event_queue[i].task]
              IN /\ task.status = FAILED =>
                       event_queue[i].error =
                           build_error_preview(task.error,
                                               error_preview_max_length)
                 /\ (task.status = COMPLETED /\ Truthy(task.result)) =>
                       event_queue[i].result = task.result

\* C32 as stated: a wait_tool_result call exits as interrupted only if an
\* external message has arrived; the callback event of the awaited task,
\* dispatched by the event bus, does not interrupt it.
C32_CallbackDoesNotInterrupt ==
    \A w \in WaitIds :
        (waits[w].fn = "wait_tool_result" /\ waits[w].pc = "interrupted") =>
            msgs > 0

\* C33: a wait_tool_result call leaves its session's interrupt flag cleared
\* when it starts waiting, and it exits as interrupted only if
\* set_interrupt_flag was called for its session while it was waiting
\* (waits[w].owed); a flag set before the wait began never interrupts it.
C33_StaleFlagNeverInterrupts ==
    /\ [](\A w \in WaitIds :
            (waits[w].fn = "wait_tool_result" /\ waits[w].pc = "interrupted")
                => waits[w].owed)
    /\ [][\A w \in WaitIds :
            (waits[w].pc = "idle" /\ waits'[w].pc = "sleeping"
                /\ waits'[w].fn = "wait_tool_result") =>
                waits'[w].session \notin interrupt_flags']_vars

\* The first wait was waiting when the flag of its session was set; the
\* second wait began in the same session after that and cleared the flag:
\* it waits on, and no flag is left.
C33_Witness ==
    /\ msgs = 1
    /\ event_queue = <<>>
    /\ waits[1].pc = "sleeping" /\ waits[1].owed
    /\ waits[2].pc = "sleeping" /\ ~waits[2].owed
    /\ waits[1].fn = "wait_tool_result" /\ waits[2].fn = "wait_tool_result"
    /\ waits[1].session = waits[2].session
    /\ waits[2].task \in reg_tasks
    /\ tasks[waits[2].task].session_id = waits[2].session
    /\ ~check_interrupt_flag(waits[2].session)

\* The events put on the event queue so far: the external messages and
\* the callback events of the tasks.
RECURSIVE callbacks_queued(_)
callbacks_queued(ids) ==
    IF ids = {} THEN 0
    ELSE LET t == CHOOSE x \in ids : TRUE
         IN run[t].callbacks + callbacks_queued(ids \ {t})

\* The calls of set_interrupt_flag so far: one per dispatched event.
set_interrupt_flag_calls ==
    msgs + callbacks_queued(DOMAIN run) - Len(event_queue)

interrupted_waits ==
    {w \in WaitIds :
        waits[w].fn = "wait_tool_result" /\ waits[w].pc = "interrupted"}

\* C34: the step in which a wait exits as interrupted leaves its session's
\* interrupt flag cleared, and no more waits have exited as interrupted
\* than set_interrupt_flag has been called.
C34_InterruptConsumesFlag ==
    /\ [][\A w \in WaitIds :
            (waits[w].pc # "interrupted" /\ waits'[w].pc = "interrupted") =>
                waits[w].session \notin interrupt_flags']_vars
    /\ [](Cardinality(interrupted_waits) <= set_interrupt_flag_calls)

\* Two waits were waiting in one session when its flag was set, once; the
\* first to wake was interrupted and the other found no flag.
C34_Witness ==
    /\ set_interrupt_flag_calls = 1
    /\ \E w \in WaitIds, v \in WaitIds :
          /\ waits[w].fn = "wait_tool_result" /\ waits[v].fn = "wait_tool_result"
          /\ waits[w].session = waits[v].session
          /\ waits[w].owed /\ waits[v].owed
          /\ waits[w].pc = "interrupted"
          /\ waits[v].pc \in {"returned", "timedout"}
          /\ ~check_interrupt_flag(waits[w].session)

waiting(w) == active(w) /\ waits[w].fn = "wait_tool_result"

C36_SecondLookupUsesCache ==
    [][(cmd_config.since_lookup = 0
          /\ Len(cmd_config'.returned) = Len(cmd_config.returned) + 1) =>
          /\ cmd_config'.loads = cmd_config.loads
          /\ cmd_config'.returned[Len(cmd_config'.returned)] =
                cmd_config.returned[Len(cmd_config.returned)]]_vars

\* C37 as stated: a task for which a stop_task call returned True ends
\* cancelled, also when the background-task timeout passes or the handler
\* ends at about the same time.
C37_StoppedTaskEndsCancelled ==
    \A t \in DOMAIN tasks :
        ((\E i \in 1..Len(stops[t]) : stops[t][i]) /\ is_finished(tasks[t]))
            => tasks[t].status = CANCELLED

\* C38 as stated: a caller of one session gets no output of, does not wait
\* on and does not stop a task submitted for another session, even when it
\* names the task's id.
C38_SessionsIsolated ==
    /\ [](\A s \in Sessions, t \in reg_tasks :
            tasks[t].session_id # s => ~get_tool_output(s, t).found)
    /\ [](\A w \in WaitIds :
            (waits[w].fn = "wait_tool_result"
                /\ waits[w].pc \notin {"idle", "notfound"}) =>
                tasks[waits[w].task].session_id = waits[w].session)
    /\ [][\A s \in Sessions, t \in TaskIds :
            (stop_tool(s, t) /\ tasks[t].session_id # s) =>
                /\ run'[t].cancel_req = run[t].cancel_req
                /\ UNCHANGED cancel_events]_vars

\* C39 as stated: after any sequence of register, remove,
\* cleanup_finished_tasks and clear, also with an id registered a second
\* time under another session, get_by_session(s) is exactly the set of
\* registered tasks whose session_id is s.
C39_GetBySessionExact ==
    \A s \in Sessions :
        get_by_session(s) = {t \in reg_tasks : tasks[t].session_id = s}


\* C40 as stated: a cycle of the cleanup loop drops neither the output
\* buffer of a registered task that is Pending or Running nor the interrupt
\* flag of a session in which a call of wait_tool_result is waiting.
C40_CleanupKeepsStateInUse ==
    [][_cleanup_loop =>
          /\ \A t \in reg_tasks :
                (~is_finished(tasks[t]) /\ t \in DOMAIN buffers)
                    => (t \in DOMAIN buffers' /\ buffers'[t] = buffers[t])
          /\ \A s \in interrupt_flags :
                (\E w \in WaitIds : waiting(w) /\ waits[w].session = s)
                    => s \in interrupt_flags']_vars

=============================================================================
